---- MODULE Spec2Model ----
(***************************************************************************)
(* Model of moose: the choreography poll loop (Choreography, in            *)
(* moose/choreography/cape_coordinator.py) and the compiler driver         *)
(* (Compiler, in moose/compiler/compiler.py).                              *)
(*                                                                         *)
(* Both coroutines of the choreography run on one asyncio event loop: the  *)
(* code between two awaits is one atomic step, and every action below is   *)
(* one such step.                                                          *)
(***************************************************************************)
EXTENDS Integers, Sequences, FiniteSets, TLC

\* ------------------------------------------------------------------ bounds
MaxSessions == 2        \* session ids the control plane hands out
MaxResponseLen == 2     \* sessions in one get_next_sessions response
MaxPolls == 2           \* poll cycles explored

SessionIds == 1..MaxSessions

\* ------------------------------------------------------------ choreography
VARIABLES
    runpc,          \* where Choreography.run stands: "login", "sleep", "poll", "raised"
    i,              \* the loop variable of run (itertools.count(start=1)); 0 before the loop
    logins,         \* client.login calls made
    sleeps,         \* the delays of the asyncio.sleep calls completed, in order
    polls,          \* client.get_next_sessions calls made
    session_tasks,  \* self.session_tasks: session id -> index in tasks, 0 for no key
    tasks,          \* every task asyncio.create_task made, in creation order
    reports,        \* what client.report_session_status delivered, in order
    runs,           \* executor.run_computation invocations, per session id
    ignored         \* the "Ignoring session" lines logged: <<session id, pc of its task then>>

chor_vars == <<runpc, i, logins, sleeps, polls, session_tasks, tasks, reports, runs, ignored>>

VARIABLES
    cpc,            \* "new" before Compiler(...), "idle" between calls, "running" inside run_passes
    passes,         \* self.passes
    computation,    \* the local `computation` of run_passes
    pass_i,         \* passes of self.passes run so far in this call (the enumerate index)
    ran,            \* the classes whose run was called in this call, in order
    result,         \* what the compile call returned; <<>> while it runs
    compiles,       \* compile calls made
    name_counters,  \* self.name_counters: prefix -> next count (a defaultdict(int))
    issued,         \* the get_fresh_name calls made: [call, prefix, name], in order
    input,          \* the computation the compile call was given
    io,             \* the compiler_pass.run calls of this compile call, in order
    render,         \* the render argument of this compile call
    rendered        \* the render_computation calls of this compile call: their filename_prefix

fresh_vars == <<name_counters, issued>>
call_vars == <<input, io, render, rendered>>
comp_vars == <<cpc, passes, computation, pass_i, ran, result, compiles,
               name_counters, issued, input, io, render, rendered>>

VARIABLES
    graph,          \* the Computation a pass is run on: operation name -> Operation
    stage,          \* "none", then the passes run: "input", "encoded", "pruned", "pruned_twice", "networked"
    given,          \* the Computation the last pass was given
    changed         \* the changed flag the last pass returned

graph_vars == <<graph, stage, given, changed>>

VARIABLES
    modulus,        \* the modulus M of the ring the shares live in; 0 before sharing
    shares,         \* the three additive shares of each input: [a |-> <<x1,x2,x3>>, b |-> <<y1,y2,y3>>]
    alpha,          \* the zero sharing that re-randomizes a product
    local,          \* player -> the share of the product it computed locally
    out,            \* player -> the two shares of the result it holds
    rop,            \* the logical operation expanded: "none", "add", "mul"
    revealed,       \* the revealed (summed) result
    rphase          \* "idle", "shared", "added", "mul_local", "multiplied", "revealed"
rep_vars == <<modulus, shares, alpha, local, out, rop, revealed, rphase>>

VARIABLES
    CURRENT_PLACEMENT,  \* the module-level stack of entered placements
    call,               \* the last constructor call: its arguments and how it ended
    blocks              \* the `with placement:` blocks that are open, outermost first:
                        \* the placement of each and CURRENT_PLACEMENT as it was entered
edsl_vars == <<CURRENT_PLACEMENT, call, blocks>>

own_name == "worker"

\* A session as get_next_sessions returns it. task.computation is the base64
\* payload: "valid" deserializes, "corrupt" makes Computation.deserialize raise.
PolledStatuses == {"Started", "Error"}
Sessions == [id : SessionIds, computation : {"valid", "corrupt"}, status : PolledStatuses]

RECURSIVE SeqsUpTo(_, _)
SeqsUpTo(S, n) ==
    IF n = 0 THEN {<<>>}
    ELSE LET shorter == SeqsUpTo(S, n - 1)
         IN shorter \cup {Append(q, x) : q \in {r \in shorter : Len(r) = n - 1}, x \in S}

Responses == SeqsUpTo(Sessions, MaxResponseLen)

\* The exception a call raises when its arguments do not fit the parameters.
TypeError == [raised |-> "TypeError"]

\* async def _report_session_status(self, session_id, status): the parameters
\* a call on the bound method has to fill.
report_session_status_params == <<"session_id", "status">>

\* A call self._report_session_status(*args). Python binds the positional
\* arguments to the parameters before the body runs and raises TypeError when
\* their numbers differ; otherwise the body hands (session_id, own_name,
\* status) to client.report_session_status, which delivers the report.
report_session_status(args) ==
    IF Len(args) # Len(report_session_status_params)
    THEN TypeError
    ELSE [session_id |-> args[1], worker |-> own_name, status |-> args[2]]

\* Mutant: the membership test never finds the key.
in_session_tasks_never(session_id, st) == FALSE

\* `session_id in self.session_tasks`
in_session_tasks(session_id, st) == st[session_id] # 0

\* Mutant: a session whose task has ended is dispatched again.
for_session_retry_ended(session, s, cycle) ==
    IF /\ in_session_tasks(session.id, s.session_tasks)
       /\ s.tasks[s.session_tasks[session.id]].pc \in {"created", "run_computation"}
    THEN [s EXCEPT !.ignored =
            @ \cup {<<session.id, s.tasks[s.session_tasks[session.id]].pc>>}]
    ELSE IF session.computation # "valid"
    THEN [s EXCEPT !.raised = TRUE]
    ELSE [s EXCEPT
            !.tasks = Append(@, [session_id |-> session.id, pc |-> "created", cycle |-> cycle]),
            !.session_tasks[session.id] = Len(s.tasks) + 1]

\* Mutant: a session the control plane reports as "Error" is passed over.
for_session_skip_error_status(session, s, cycle) ==
    IF in_session_tasks(session.id, s.session_tasks) \/ session.status = "Error"
    THEN s
    ELSE IF session.computation # "valid"
    THEN [s EXCEPT !.raised = TRUE]
    ELSE [s EXCEPT
            !.tasks = Append(@, [session_id |-> session.id, pc |-> "created", cycle |-> cycle]),
            !.session_tasks[session.id] = Len(s.tasks) + 1]

\* One iteration of `for session in sessions`, on the loop's state
\* [session_tasks, tasks, ignored, raised]; cycle is the value of i.
for_session(session, s, cycle) ==
    IF in_session_tasks(session.id, s.session_tasks)
    THEN [s EXCEPT !.ignored =
            @ \cup {<<session.id, s.tasks[s.session_tasks[session.id]].pc>>}]
    ELSE IF session.computation # "valid"
    THEN [s EXCEPT !.raised = TRUE]
    ELSE [s EXCEPT
            !.tasks = Append(@, [session_id |-> session.id, pc |-> "created", cycle |-> cycle]),
            !.session_tasks[session.id] = Len(s.tasks) + 1]

\* The whole `for session in sessions` loop; an exception ends it.
RECURSIVE for_sessions(_, _, _)
for_sessions(sessions, s, cycle) ==
    IF sessions = <<>> \/ s.raised
    THEN s
    ELSE for_sessions(Tail(sessions), for_session(Head(sessions), s, cycle), cycle)

\* poll_delay=10.0, the default of Choreography.__init__
poll_delay == 10

\* itertools.count(start=1)
count_start == 1

\* Mutant: the first cycle polls at once.
sleep_due_after_first(n) == n > count_start

\* `if i > 0`
sleep_due(n) == n > 0

ChorInit ==
    /\ runpc = "login"
    /\ i = 0
    /\ logins = 0
    /\ sleeps = <<>>
    /\ polls = 0
    /\ session_tasks = [s \in SessionIds |-> 0]
    /\ tasks = <<>>
    /\ reports = <<>>
    /\ runs = [s \in SessionIds |-> 0]
    /\ ignored = {}

\* await self._login(); then the loop is entered with i = 1 and, as i > 0,
\* the sleep is started.
Login ==
    /\ runpc = "login"
    /\ logins' = logins + 1
    /\ i' = count_start
    /\ runpc' = "sleep"
    /\ UNCHANGED <<sleeps, polls, session_tasks, tasks, reports, runs, ignored>>
    /\ UNCHANGED comp_vars
    /\ UNCHANGED graph_vars
    /\ UNCHANGED <<rep_vars, edsl_vars>>

\* Every pc a task can end in.
Ended == {"completed", "error", "raised"}

\* Mutant: the loop waits for the tasks it spawned before its next cycle.
Sleep_after_tasks ==
    /\ runpc = "sleep"
    /\ polls < MaxPolls
    /\ \A t \in 1..Len(tasks) : tasks[t].pc \in Ended
    /\ sleeps' = IF sleep_due(i) THEN Append(sleeps, poll_delay) ELSE sleeps
    /\ polls' = polls + 1
    /\ runpc' = "poll"
    /\ UNCHANGED <<i, logins, session_tasks, tasks, reports, runs, ignored>>
    /\ UNCHANGED comp_vars
    /\ UNCHANGED graph_vars
    /\ UNCHANGED <<rep_vars, edsl_vars>>

\* The head of a cycle: when the sleep is due, asyncio.sleep(self.poll_delay)
\* is over; get_next_sessions is called.
Sleep ==
    /\ runpc = "sleep"
    /\ polls < MaxPolls
    /\ sleeps' = IF sleep_due(i) THEN Append(sleeps, poll_delay) ELSE sleeps
    /\ polls' = polls + 1
    /\ runpc' = "poll"
    /\ UNCHANGED <<i, logins, session_tasks, tasks, reports, runs, ignored>>
    /\ UNCHANGED comp_vars
    /\ UNCHANGED graph_vars
    /\ UNCHANGED <<rep_vars, edsl_vars>>

\* Mutant: the login is inside the loop.
Dispatch_relogin(sessions) ==
    /\ runpc = "poll"
    /\ LET s == for_sessions(sessions,
                             [session_tasks |-> session_tasks, tasks |-> tasks,
                              ignored |-> ignored, raised |-> FALSE], i)
       IN /\ session_tasks' = s.session_tasks
          /\ tasks' = s.tasks
          /\ ignored' = s.ignored
          /\ runpc' = IF s.raised THEN "raised" ELSE "login"
          /\ i' = IF s.raised THEN i ELSE i + 1
    /\ UNCHANGED <<logins, sleeps, polls, reports, runs>>
    /\ UNCHANGED comp_vars
    /\ UNCHANGED graph_vars
    /\ UNCHANGED <<rep_vars, edsl_vars>>

\* get_next_sessions returns `sessions`; the for loop runs without an await,
\* then the next iteration of the outer loop starts its sleep. An exception
\* of the loop body leaves run.
Dispatch(sessions) ==
    /\ runpc = "poll"
    /\ LET s == for_sessions(sessions,
                             [session_tasks |-> session_tasks, tasks |-> tasks,
                              ignored |-> ignored, raised |-> FALSE], i)
       IN /\ session_tasks' = s.session_tasks
          /\ tasks' = s.tasks
          /\ ignored' = s.ignored
          /\ runpc' = IF s.raised THEN "raised" ELSE "sleep"
          /\ i' = IF s.raised THEN i ELSE i + 1
    /\ UNCHANGED <<logins, sleeps, polls, reports, runs>>
    /\ UNCHANGED comp_vars
    /\ UNCHANGED graph_vars
    /\ UNCHANGED <<rep_vars, edsl_vars>>

\* Mutant: the report calls fit the signature and the except branch does not
\* return, so "Completed" follows "Error".
handle_session_reports_twice(t) ==
    /\ t \in 1..Len(tasks)
    /\ LET session_id == tasks[t].session_id
           report(status) == [session_id |-> session_id, worker |-> own_name, status |-> status]
       IN
       CASE tasks[t].pc = "created" ->
              /\ reports' = Append(reports, report("Started"))
              /\ runs' = [runs EXCEPT ![session_id] = @ + 1]
              /\ tasks' = [tasks EXCEPT ![t].pc = "run_computation"]
         [] tasks[t].pc = "run_computation" ->
              \E outcome \in {"returns", "raises"} :
                /\ reports' = IF outcome = "raises"
                              THEN reports \o <<report("Error"), report("Completed")>>
                              ELSE Append(reports, report("Completed"))
                /\ tasks' = [tasks EXCEPT ![t].pc = "completed"]
                /\ UNCHANGED runs
         [] OTHER -> FALSE
    /\ UNCHANGED <<runpc, i, logins, sleeps, polls, session_tasks, ignored>>
    /\ UNCHANGED comp_vars
    /\ UNCHANGED graph_vars
    /\ UNCHANGED <<rep_vars, edsl_vars>>

\* One step of the task tasks[t] running _handle_session, from one await to
\* the next.
handle_session(t) ==
    /\ t \in 1..Len(tasks)
    /\ LET session_id == tasks[t].session_id IN
       CASE tasks[t].pc = "created" ->
              \* line 34: report "Started", then call executor.run_computation
              LET r == report_session_status(<<session_id, own_name, "Started">>) IN
              IF r = TypeError
              THEN /\ tasks' = [tasks EXCEPT ![t].pc = "raised"]
                   /\ UNCHANGED <<reports, runs>>
              ELSE /\ reports' = Append(reports, r)
                   /\ runs' = [runs EXCEPT ![session_id] = @ + 1]
                   /\ tasks' = [tasks EXCEPT ![t].pc = "run_computation"]
         [] tasks[t].pc = "run_computation" ->
              \* lines 36-49: run_computation returns or raises
              \E outcome \in {"returns", "raises"} :
                LET status == IF outcome = "raises" THEN "Error" ELSE "Completed"
                    r == report_session_status(<<session_id, own_name, status>>)
                IN IF r = TypeError
                   THEN /\ tasks' = [tasks EXCEPT ![t].pc = "raised"]
                        /\ UNCHANGED <<reports, runs>>
                   ELSE /\ reports' = Append(reports, r)
                        /\ tasks' = [tasks EXCEPT ![t].pc =
                                        IF outcome = "raises" THEN "error" ELSE "completed"]
                        /\ UNCHANGED runs
         [] OTHER -> FALSE
    /\ UNCHANGED <<runpc, i, logins, sleeps, polls, session_tasks, ignored>>
    /\ UNCHANGED comp_vars
    /\ UNCHANGED graph_vars
    /\ UNCHANGED <<rep_vars, edsl_vars>>

ChorNext ==
    \/ Login
    \/ Sleep
    \/ \E sessions \in Responses : Dispatch(sessions)
    \/ \E t \in 1..(MaxPolls * MaxResponseLen) : handle_session(t)

\* ---------------------------------------------------------------- compiler
MaxCompiles == 2        \* compile calls on one Compiler explored
MaxFresh == 2           \* get_fresh_name calls explored in one compile call


\* The default of the passes parameter; no list of passes equals it.
None == <<"None">>

\* Mutant: ring lowering is moved in front of the replicated encoding.
DefaultPasses_ring_first ==
    << "MpspdzApplyFunctionPass",
       "HostEncodingPass",
       "HostLoweringPass",
       "HostRingLoweringPass",
       "ReplicatedEncodingPass",
       "ReplicatedOpsPass",
       "ReplicatedLoweringPass",
       "PruningPass",
       "NetworkingPass" >>

\* Mutant: pruning is the last pass, after networking.
DefaultPasses_pruning_last ==
    << "MpspdzApplyFunctionPass",
       "HostEncodingPass",
       "HostLoweringPass",
       "ReplicatedEncodingPass",
       "ReplicatedOpsPass",
       "HostRingLoweringPass",
       "ReplicatedLoweringPass",
       "NetworkingPass",
       "PruningPass" >>

\* The list Compiler.__init__ builds when passes is None.
DefaultPasses ==
    << "MpspdzApplyFunctionPass",
       "HostEncodingPass",
       "HostLoweringPass",
       "ReplicatedEncodingPass",
       "ReplicatedOpsPass",
       "HostRingLoweringPass",
       "ReplicatedLoweringPass",
       "PruningPass",
       "NetworkingPass" >>

\* Pass lists a caller hands to Compiler(passes=...).
CustomPasses == { <<>>, <<"PruningPass">>, <<"NetworkingPass", "PruningPass">> }

\* A computation is its input graph followed by the passes that rewrote it.
InputComputations == { <<"comp_a">>, <<"comp_b">> }

\* compiler_pass.run(computation, context): the pass classes are imported, not
\* defined here; a pass returns the graph it was given and False, or a
\* rewritten graph and True.
pass_run(compiler_pass, c, performed_changes) ==
    IF performed_changes THEN Append(c, compiler_pass) ELSE c

\* Prefixes the passes ask fresh names for, as strings of characters.
Prefixes == { <<"x">>, <<"x", "_", "0">>, <<"y">> }

\* str(count) of a non-negative int: its decimal digits.
RECURSIVE Decimal(_)
Decimal(n) ==
    LET digit(d) == <<"0", "1", "2", "3", "4", "5", "6", "7", "8", "9">>[d + 1]
    IN IF n < 10 THEN <<digit(n)>> ELSE Decimal(n \div 10) \o <<digit(n % 10)>>

\* Mutant: the count is printed from 1.
fresh_name_from_one(prefix, count) == prefix \o <<"_">> \o Decimal(count + 1)

\* f"{prefix}_{count}"
fresh_name(prefix, count) == prefix \o <<"_">> \o Decimal(count)

\* Mutant: the counter is read and not incremented.
next_count_same(count) == count

\* self.name_counters[prefix] += 1
next_count(count) == count + 1

\* type(compiler_pass).__name__.lower()
lower_name(compiler_pass) ==
    CASE compiler_pass = "MpspdzApplyFunctionPass" -> "mpspdzapplyfunctionpass"
      [] compiler_pass = "HostEncodingPass" -> "hostencodingpass"
      [] compiler_pass = "HostLoweringPass" -> "hostloweringpass"
      [] compiler_pass = "ReplicatedEncodingPass" -> "replicatedencodingpass"
      [] compiler_pass = "ReplicatedOpsPass" -> "replicatedopspass"
      [] compiler_pass = "HostRingLoweringPass" -> "hostringloweringpass"
      [] compiler_pass = "ReplicatedLoweringPass" -> "replicatedloweringpass"
      [] compiler_pass = "PruningPass" -> "pruningpass"
      [] compiler_pass = "NetworkingPass" -> "networkingpass"

\* The default of render_prefix.
render_prefix == "pass"

\* The filename_prefix f"{render_prefix}-{index}-{name}", kept in its parts.
filename_prefix(index, name) == <<render_prefix, index, name>>

CompInit ==
    /\ cpc = "new"
    /\ passes = <<>>
    /\ computation = <<>>
    /\ pass_i = 0
    /\ ran = <<>>
    /\ result = <<>>
    /\ compiles = 0
    /\ name_counters = [p \in Prefixes |-> 0]
    /\ issued = <<>>
    /\ input = <<>>
    /\ io = <<>>
    /\ render = FALSE
    /\ rendered = <<>>

\* Compiler(passes=passes_arg)
Construct(passes_arg) ==
    /\ cpc = "new"
    /\ passes' = IF passes_arg # None THEN passes_arg ELSE DefaultPasses
    /\ cpc' = "idle"
    /\ name_counters' = [p \in Prefixes |-> 0]
    /\ UNCHANGED <<computation, pass_i, ran, result, compiles, issued>>
    /\ UNCHANGED call_vars
    /\ UNCHANGED chor_vars
    /\ UNCHANGED graph_vars
    /\ UNCHANGED <<rep_vars, edsl_vars>>

\* compile(c, render=r) is called and enters run_passes, which renders the
\* initial graph when render is set.
Compile(c, r) ==
    /\ cpc = "idle"
    /\ compiles < MaxCompiles
    /\ compiles' = compiles + 1
    /\ computation' = c
    /\ input' = c
    /\ render' = r
    /\ rendered' = IF r THEN <<filename_prefix(0, "initial")>> ELSE <<>>
    /\ io' = <<>>
    /\ pass_i' = 0
    /\ ran' = <<>>
    /\ result' = <<>>
    /\ cpc' = "running"
    /\ UNCHANGED passes
    /\ UNCHANGED fresh_vars
    /\ UNCHANGED chor_vars
    /\ UNCHANGED graph_vars
    /\ UNCHANGED <<rep_vars, edsl_vars>>

\* Mutant: every pass is given the computation compile was called with.
RunPass_from_input(performed_changes) ==
    /\ cpc = "running"
    /\ pass_i < Len(passes)
    /\ LET compiler_pass == passes[pass_i + 1] IN
       /\ computation' = pass_run(compiler_pass, input, performed_changes)
       /\ ran' = Append(ran, compiler_pass)
       /\ io' = Append(io, [pass |-> compiler_pass, given |-> input,
                            returned |-> computation', changed |-> performed_changes])
       /\ rendered' = IF render /\ performed_changes
                      THEN Append(rendered,
                                  filename_prefix(pass_i + 1, lower_name(compiler_pass)))
                      ELSE rendered
    /\ pass_i' = pass_i + 1
    /\ UNCHANGED <<cpc, passes, result, compiles, input, render>>
    /\ UNCHANGED fresh_vars
    /\ UNCHANGED chor_vars
    /\ UNCHANGED graph_vars
    /\ UNCHANGED <<rep_vars, edsl_vars>>

\* Mutant: with render set, every pass is rendered, changed or not.
RunPass_render_always(performed_changes) ==
    /\ cpc = "running"
    /\ pass_i < Len(passes)
    /\ LET compiler_pass == passes[pass_i + 1] IN
       /\ computation' = pass_run(compiler_pass, computation, performed_changes)
       /\ ran' = Append(ran, compiler_pass)
       /\ io' = Append(io, [pass |-> compiler_pass, given |-> computation,
                            returned |-> computation', changed |-> performed_changes])
       /\ rendered' = IF render
                      THEN Append(rendered,
                                  filename_prefix(pass_i + 1, lower_name(compiler_pass)))
                      ELSE rendered
    /\ pass_i' = pass_i + 1
    /\ UNCHANGED <<cpc, passes, result, compiles, input, render>>
    /\ UNCHANGED fresh_vars
    /\ UNCHANGED chor_vars
    /\ UNCHANGED graph_vars
    /\ UNCHANGED <<rep_vars, edsl_vars>>

\* One iteration of `for i, compiler_pass in enumerate(self.passes)`.
RunPass(performed_changes) ==
    /\ cpc = "running"
    /\ pass_i < Len(passes)
    /\ LET compiler_pass == passes[pass_i + 1] IN
       /\ computation' = pass_run(compiler_pass, computation, performed_changes)
       /\ ran' = Append(ran, compiler_pass)
       /\ io' = Append(io, [pass |-> compiler_pass, given |-> computation,
                            returned |-> computation', changed |-> performed_changes])
       /\ rendered' = IF render /\ performed_changes
                      THEN Append(rendered,
                                  filename_prefix(pass_i + 1, lower_name(compiler_pass)))
                      ELSE rendered
    /\ pass_i' = pass_i + 1
    /\ UNCHANGED <<cpc, passes, result, compiles, input, render>>
    /\ UNCHANGED fresh_vars
    /\ UNCHANGED chor_vars
    /\ UNCHANGED graph_vars
    /\ UNCHANGED <<rep_vars, edsl_vars>>

\* The loop is over: run_passes and compile return computation.
Return ==
    /\ cpc = "running"
    /\ pass_i = Len(passes)
    /\ result' = computation
    /\ cpc' = "idle"
    /\ UNCHANGED <<passes, computation, pass_i, ran, compiles>>
    /\ UNCHANGED fresh_vars
    /\ UNCHANGED call_vars
    /\ UNCHANGED chor_vars
    /\ UNCHANGED graph_vars
    /\ UNCHANGED <<rep_vars, edsl_vars>>

\* A pass, while the compile call runs, calls context.get_fresh_name(prefix).
get_fresh_name(prefix) ==
    /\ cpc = "running"
    /\ Len(SelectSeq(issued, LAMBDA e : e.call = compiles)) < MaxFresh
    /\ LET count == name_counters[prefix] IN
       /\ name_counters' = [name_counters EXCEPT ![prefix] = next_count(count)]
       /\ issued' = Append(issued, [call |-> compiles, prefix |-> prefix,
                                    name |-> fresh_name(prefix, count)])
    /\ UNCHANGED <<cpc, passes, computation, pass_i, ran, result, compiles>>
    /\ UNCHANGED call_vars
    /\ UNCHANGED chor_vars
    /\ UNCHANGED graph_vars
    /\ UNCHANGED <<rep_vars, edsl_vars>>

CompNext ==
    \/ \E passes_arg \in {None} \cup CustomPasses : Construct(passes_arg)
    \/ \E c \in InputComputations, r \in BOOLEAN : Compile(c, r)
    \/ \E performed_changes \in BOOLEAN : RunPass(performed_changes)
    \/ Return

\* ------------------------------------------------- computations and passes
MaxOps == 3             \* operations in a computation handed to the passes

\* Placements: two Host placements and one Replicated placement.
Placements == {"alice", "bob", "rep"}
IsReplicated(placement) == placement = "rep"

\* An Operation: its kind, the names of its inputs in order, its placement and,
\* for Send and Receive, its rendezvous key (0 otherwise). Operation names are
\* numbers.
Operation(kind, inputs, placement, key) ==
    [kind |-> kind, inputs |-> inputs, placement |-> placement, key |-> key]

\* The operations a front end can add to a computation of m operations.
OperationsOver(m) ==
    {Operation("Constant", <<>>, pl, 0) : pl \in Placements}
    \cup {Operation("Add", <<a, b>>, pl, 0) : a \in 1..m, b \in 1..m, pl \in Placements}
    \cup {Operation("Output", <<a>>, pl, 0) : a \in 1..m, pl \in Placements}

\* The computations of exactly n operations: no dangling input, no cycle.
RECURSIVE ComputationsOf(_)
ComputationsOf(n) ==
    IF n = 0 THEN {<<>>}
    ELSE {Append(g, op) : g \in ComputationsOf(n - 1), op \in OperationsOver(n - 1)}

Computations == UNION {ComputationsOf(n) : n \in 1..MaxOps}

FreshId(g) == 1 + CHOOSE m \in DOMAIN g : \A k \in DOMAIN g : k <= m

\* The edges of g: <<consumer, position of the input>>.
Edges(g) == UNION {{<<c, p>> : p \in 1..Len(g[c].inputs)} : c \in DOMAIN g}
Producer(g, e) == g[e[1]].inputs[e[2]]
FirstEdge(es) ==
    CHOOSE e \in es : \A f \in es : e[1] < f[1] \/ (e[1] = f[1] /\ e[2] <= f[2])

\* ---- pruning
\* Mutant: the traversal follows the first input of an operation only.
prune_step_first_input(g, seen) ==
    seen \cup {g[c].inputs[1] : c \in {d \in seen : g[d].inputs # <<>>}}

\* One backward step of the traversal from the operations in `seen`.
prune_step(g, seen) == seen \cup {g[c].inputs[p] : <<c, p>> \in {e \in Edges(g) : e[1] \in seen}}

RECURSIVE prune_reach(_, _)
prune_reach(g, seen) ==
    IF prune_step(g, seen) = seen THEN seen ELSE prune_reach(g, prune_step(g, seen))

\* PruningPass.run: keep what the backward traversal from the Output and Save
\* operations reaches; changed tells whether anything was deleted.
pruning_run(g) ==
    LET roots == {c \in DOMAIN g : g[c].kind \in {"Output", "Save"}}
        kept == prune_reach(g, roots)
    IN [computation |-> [c \in kept |-> g[c]], changed |-> kept # DOMAIN g]

\* ---- networking
\* An edge whose producer is placed elsewhere than its consumer.
CrossEdges(g) == {e \in Edges(g) : g[Producer(g, e)].placement # g[e[1]].placement}

\* Replace the edge e by a Send at the producer's placement and a Receive at
\* the consumer's, both carrying the rendezvous key `key`.
networking_edge(g, e, key) ==
    LET send == FreshId(g)
        receive == send + 1
    IN [g EXCEPT ![e[1]].inputs[e[2]] = receive]
       @@ (send :> Operation("Send", <<Producer(g, e)>>, g[Producer(g, e)].placement, key))
       @@ (receive :> Operation("Receive", <<>>, g[e[1]].placement, key))

RECURSIVE networking_edges(_, _)
networking_edges(g, key) ==
    IF CrossEdges(g) = {} THEN g
    ELSE networking_edges(networking_edge(g, FirstEdge(CrossEdges(g)), key), key + 1)

\* Mutant: only the first edge found is given a Send and a Receive.
networking_run_first_edge(g) ==
    [computation |-> IF CrossEdges(g) = {} THEN g
                     ELSE networking_edge(g, FirstEdge(CrossEdges(g)), 1),
     changed |-> CrossEdges(g) # {}]

\* NetworkingPass.run
networking_run(g) ==
    [computation |-> networking_edges(g, 1), changed |-> CrossEdges(g) # {}]

\* ---- replicated encoding
\* Mutant: only the first input of an operation is looked at.
BoundaryEdges_first_input(g) ==
    {e \in Edges(g) :
        /\ e[2] = 1
        /\ IsReplicated(g[e[1]].placement) # IsReplicated(g[Producer(g, e)].placement)
        /\ g[e[1]].kind # "Share"
        /\ g[Producer(g, e)].kind # "Reveal"}

\* An edge into a Replicated consumer from elsewhere, or out of a Replicated
\* producer to elsewhere; the inserted Share and Reveal operations are not
\* boundaries themselves.
BoundaryEdges(g) ==
    {e \in Edges(g) :
        /\ IsReplicated(g[e[1]].placement) # IsReplicated(g[Producer(g, e)].placement)
        /\ g[e[1]].kind # "Share"
        /\ g[Producer(g, e)].kind # "Reveal"}

\* Put a Share (into the group) or a Reveal (out of it) on the edge e; both
\* are placed on the Replicated placement.
encoding_edge(g, e) ==
    LET new == FreshId(g)
        into == IsReplicated(g[e[1]].placement)
        op == IF into
              THEN Operation("Share", <<Producer(g, e)>>, g[e[1]].placement, 0)
              ELSE Operation("Reveal", <<Producer(g, e)>>, g[Producer(g, e)].placement, 0)
    IN [g EXCEPT ![e[1]].inputs[e[2]] = new] @@ (new :> op)

RECURSIVE encoding_edges(_)
encoding_edges(g) ==
    IF BoundaryEdges(g) = {} THEN g
    ELSE encoding_edges(encoding_edge(g, FirstEdge(BoundaryEdges(g))))

\* ReplicatedEncodingPass.run
replicated_encoding_run(g) ==
    [computation |-> encoding_edges(g), changed |-> BoundaryEdges(g) # {}]

GraphInit ==
    /\ graph = <<>>
    /\ stage = "none"
    /\ given = <<>>
    /\ changed = FALSE

\* The front end hands over the computation c.
Load ==
    /\ stage = "none"
    /\ \E c \in Computations : graph' = c
    /\ stage' = "input"
    /\ UNCHANGED <<given, changed>>
    /\ UNCHANGED chor_vars
    /\ UNCHANGED comp_vars
    /\ UNCHANGED <<rep_vars, edsl_vars>>

ReplicatedEncoding ==
    /\ stage = "input"
    /\ LET r == replicated_encoding_run(graph) IN
       /\ graph' = r.computation
       /\ changed' = r.changed
    /\ given' = graph
    /\ stage' = "encoded"
    /\ UNCHANGED chor_vars
    /\ UNCHANGED comp_vars
    /\ UNCHANGED <<rep_vars, edsl_vars>>

Pruning ==
    /\ stage \in {"encoded", "pruned"}
    /\ LET r == pruning_run(graph) IN
       /\ graph' = r.computation
       /\ changed' = r.changed
    /\ given' = graph
    /\ stage' = IF stage = "encoded" THEN "pruned" ELSE "pruned_twice"
    /\ UNCHANGED chor_vars
    /\ UNCHANGED comp_vars
    /\ UNCHANGED <<rep_vars, edsl_vars>>

Networking ==
    /\ stage \in {"pruned", "pruned_twice"}
    /\ LET r == networking_run(graph) IN
       /\ graph' = r.computation
       /\ changed' = r.changed
    /\ given' = graph
    /\ stage' = "networked"
    /\ UNCHANGED chor_vars
    /\ UNCHANGED comp_vars
    /\ UNCHANGED <<rep_vars, edsl_vars>>

GraphNext ==
    \/ Load
    \/ ReplicatedEncoding
    \/ Pruning
    \/ Networking

\* ------------------------------------------- replicated (2-out-of-3) sharing
MaxModulus == 3
Moduli == 2..MaxModulus
Players == 1..3
NextPlayer(p) == (p % 3) + 1

\* The three-way additive sharings of v modulo M.
Sharings(M, v) ==
    {<<x1, x2, (v + 2 * M - x1 - x2) % M>> : x1 \in 0..(M - 1), x2 \in 0..(M - 1)}

\* The value a sharing stands for: the sum of its three shares.
Reconstruct(M, xs) == (xs[1] + xs[2] + xs[3]) % M

\* Player p holds shares p and p + 1 of every value.
Held(xs, p) == <<xs[p], xs[NextPlayer(p)]>>

\* Expanded addition at player p: share-wise sums of the two shares it holds.
add_local(M, xs, ys, p) ==
    <<(xs[p] + ys[p]) % M, (xs[NextPlayer(p)] + ys[NextPlayer(p)]) % M>>

\* Mutant: a cross product is left out.
mul_local_two_products(M, xs, ys, zero, p) ==
    (xs[p] * ys[p] + xs[p] * ys[NextPlayer(p)] + zero[p]) % M

\* Expanded multiplication at player p: the local cross products of the
\* shares it holds, re-randomized by its share of a sharing of zero.
mul_local(M, xs, ys, zero, p) ==
    (xs[p] * ys[p] + xs[p] * ys[NextPlayer(p)] + xs[NextPlayer(p)] * ys[p] + zero[p]) % M

\* Re-sharing: player p keeps its product share and receives the next
\* player's.
reshare(products, p) == <<products[p], products[NextPlayer(p)]>>

\* Reveal: the three distinct shares, two from player 1 and one from player 2.
reveal(M, pairs) == (pairs[1][1] + pairs[1][2] + pairs[2][2]) % M

RepInit ==
    /\ modulus = 0
    /\ shares = <<>>
    /\ alpha = <<>>
    /\ local = <<>>
    /\ out = <<>>
    /\ rop = "none"
    /\ revealed = None
    /\ rphase = "idle"

ShareInputs ==
    /\ rphase = "idle"
    /\ \E M \in Moduli : \E a, b \in 0..(M - 1) :
          \E xs \in Sharings(M, a), ys \in Sharings(M, b) :
              /\ modulus' = M
              /\ shares' = [a |-> xs, b |-> ys]
    /\ rphase' = "shared"
    /\ UNCHANGED <<alpha, local, out, rop, revealed>>
    /\ UNCHANGED <<chor_vars, comp_vars, graph_vars, edsl_vars>>

ReplicatedAdd ==
    /\ rphase = "shared"
    /\ rop' = "add"
    /\ out' = [p \in Players |-> add_local(modulus, shares.a, shares.b, p)]
    /\ rphase' = "added"
    /\ UNCHANGED <<modulus, shares, alpha, local, revealed>>
    /\ UNCHANGED <<chor_vars, comp_vars, graph_vars, edsl_vars>>

ReplicatedMulLocal ==
    /\ rphase = "shared"
    /\ rop' = "mul"
    /\ \E zero \in Sharings(modulus, 0) :
          /\ alpha' = zero
          /\ local' = [p \in Players |-> mul_local(modulus, shares.a, shares.b, zero, p)]
    /\ rphase' = "mul_local"
    /\ UNCHANGED <<modulus, shares, out, revealed>>
    /\ UNCHANGED <<chor_vars, comp_vars, graph_vars, edsl_vars>>

ReplicatedMulReshare ==
    /\ rphase = "mul_local"
    /\ out' = [p \in Players |-> reshare(local, p)]
    /\ rphase' = "multiplied"
    /\ UNCHANGED <<modulus, shares, alpha, local, rop, revealed>>
    /\ UNCHANGED <<chor_vars, comp_vars, graph_vars, edsl_vars>>

Reveal ==
    /\ rphase \in {"added", "multiplied"}
    /\ revealed' = reveal(modulus, out)
    /\ rphase' = "revealed"
    /\ UNCHANGED <<modulus, shares, alpha, local, out, rop>>
    /\ UNCHANGED <<chor_vars, comp_vars, graph_vars, edsl_vars>>

RepNext ==
    \/ ShareInputs
    \/ ReplicatedAdd
    \/ ReplicatedMulLocal
    \/ ReplicatedMulReshare
    \/ Reveal

\* ------------------------------------------------ edsl: building expressions
MaxDepth == 2

\* Placement expressions, and what else a caller may pass as `placement`.
HostPlacementExpression(name) == <<"HostPlacementExpression", name>>
ReplicatedPlacementExpression(name) == <<"ReplicatedPlacementExpression", name>>
PlacementExpressions == {HostPlacementExpression("alice"), ReplicatedPlacementExpression("rep")}
IsPlacementExpression(plc) == plc \in PlacementExpressions
PlacementArgs == PlacementExpressions \cup {None, <<"str", "alice">>}

\* Value types; only a TensorType carries a dtype here.
DTypes == {"float64", "int64"}
TensorType(dtype) == <<"TensorType", dtype>>
IsTensorType(vtype) == vtype[1] = "TensorType"
Vtypes == {TensorType(d) : d \in DTypes} \cup {<<"IntType">>, <<"StringType">>}

Expression(class, op_name, placement, inputs, vtype) ==
    [class |-> class, op_name |-> op_name, placement |-> placement,
     inputs |-> inputs, vtype |-> vtype]
BinaryOpExpression(op_name, placement, inputs, vtype) ==
    Expression("BinaryOpExpression", op_name, placement, inputs, vtype)

\* The expressions handed in as operands: one of each value type.
Operands ==
    {Expression("ArgumentExpression", "", HostPlacementExpression("alice"), <<>>, v) :
        v \in Vtypes}

\* How a call ends: with an exception of the named class, or with a value.
Raised(exception) == [raised |-> exception, value |-> None]
Returned(value) == [raised |-> "", value |-> value]

get_current_placement(stack) ==
    IF stack = <<>> THEN Raised("IndexError") ELSE Returned(stack[Len(stack)])

materialize_placement_arg(plc, stack) ==
    LET chosen == IF plc # None THEN Returned(plc) ELSE get_current_placement(stack)
    IN  IF chosen.raised # "" THEN chosen
        ELSE IF ~IsPlacementExpression(chosen.value) THEN Raised("TypeError")
        ELSE chosen

assimilate_arg_dtypes(lhs_vtype, rhs_vtype) ==
    IF lhs_vtype[2] # rhs_vtype[2] THEN Raised("ValueError") ELSE Returned(lhs_vtype)

assimilate_arg_vtypes(lhs_vtype, rhs_vtype) ==
    IF IsTensorType(lhs_vtype) /\ IsTensorType(rhs_vtype)
    THEN assimilate_arg_dtypes(lhs_vtype, rhs_vtype)
    ELSE IF lhs_vtype # rhs_vtype THEN Raised("ValueError")
    ELSE Returned(lhs_vtype)

\* The common body of the binary constructors: the placement is resolved
\* first, then the value type, then the expression is built.
binary_op(op_name, lhs, rhs, placement, vtype) ==
    IF placement.raised # "" THEN placement
    ELSE IF vtype.raised # "" THEN vtype
    ELSE Returned(BinaryOpExpression(op_name, placement.value, <<lhs, rhs>>, vtype.value))

add(lhs, rhs, placement, stack) ==
    binary_op("add", lhs, rhs, materialize_placement_arg(placement, stack),
              assimilate_arg_vtypes(lhs.vtype, rhs.vtype))
sub(lhs, rhs, placement, stack) ==
    binary_op("sub", lhs, rhs, materialize_placement_arg(placement, stack),
              assimilate_arg_vtypes(lhs.vtype, rhs.vtype))
mul(lhs, rhs, placement, stack) ==
    binary_op("mul", lhs, rhs, materialize_placement_arg(placement, stack),
              assimilate_arg_vtypes(lhs.vtype, rhs.vtype))
dot(lhs, rhs, placement, stack) ==
    binary_op("dot", lhs, rhs, materialize_placement_arg(placement, stack),
              assimilate_arg_vtypes(lhs.vtype, rhs.vtype))
div(lhs, rhs, placement, stack) ==
    binary_op("div", lhs, rhs, materialize_placement_arg(placement, stack),
              assimilate_arg_vtypes(lhs.vtype, rhs.vtype))
less(lhs, rhs, placement, stack) ==
    binary_op("less", lhs, rhs, materialize_placement_arg(placement, stack),
              Returned(TensorType("bool_")))
greater(lhs, rhs, placement, stack) ==
    binary_op("greater", lhs, rhs, materialize_placement_arg(placement, stack),
              Returned(TensorType("bool_")))
logical_or(lhs, rhs, placement, stack) ==
    binary_op("or", lhs, rhs, materialize_placement_arg(placement, stack),
              assimilate_arg_vtypes(lhs.vtype, rhs.vtype))

BinaryOps == {"add", "sub", "mul", "dot", "div", "less", "greater", "logical_or"}
binary_call(fn, lhs, rhs, placement, stack) ==
    CASE fn = "add" -> add(lhs, rhs, placement, stack)
      [] fn = "sub" -> sub(lhs, rhs, placement, stack)
      [] fn = "mul" -> mul(lhs, rhs, placement, stack)
      [] fn = "dot" -> dot(lhs, rhs, placement, stack)
      [] fn = "div" -> div(lhs, rhs, placement, stack)
      [] fn = "less" -> less(lhs, rhs, placement, stack)
      [] fn = "greater" -> greater(lhs, rhs, placement, stack)
      [] fn = "logical_or" -> logical_or(lhs, rhs, placement, stack)

\* ---- constant
\* A dtype argument that was not given (Python's None, among the dtype names).
NoDType == "None"
ConstantDTypes == {"float64", "int64", "fixed14_23"}
IsDType(dtype) == dtype \in ConstantDTypes
is_fixedpoint(dtype) == dtype = "fixed14_23"
is_float(dtype) == dtype = "float64"
is_integer(dtype) == dtype = "int64"

\* _NUMPY_DTYPES_MAP.get(value.dtype.type, None)
NUMPY_DTYPES_MAP(numpy_dtype) ==
    IF numpy_dtype \in {"float64", "int64"} THEN numpy_dtype ELSE NoDType

\* The values handed to constant: an ndarray of a numpy dtype, a Python
\* float, int or str, and a value of no type that constant knows.
ndarray(numpy_dtype) == <<"ndarray", numpy_dtype>>
ConstantValues ==
    {ndarray("float64"), ndarray("int64"), ndarray("complex128"),
     <<"float">>, <<"int">>, <<"str">>, <<"list">>}

\* np.array(value) of a Python scalar
np_array(value) == IF value = <<"float">> THEN ndarray("float64") ELSE ndarray("int64")

ConstantDTypeArgs == {NoDType, "float64", "fixed14_23"}
ConstantVtypeArgs ==
    {None, TensorType("float64"), TensorType("fixed14_23"),
     <<"FloatType">>, <<"IntType">>, <<"StringType">>}

\* The value of a constant is left out of the expression: nothing modelled
\* here reads it.
ConstantExpression(placement, vtype) ==
    Expression("ConstantExpression", "", placement, <<>>, vtype)
CastExpression(placement, inputs, vtype) ==
    Expression("CastExpression", "", placement, inputs, vtype)

check_tensor_type_arg_consistency(dtype, vtype) ==
    IF IsTensorType(vtype) /\ vtype[2] # dtype THEN Raised("ValueError") ELSE Returned(None)

maybe_lift_dtype_to_tensor_vtype(dtype, vtype) ==
    IF dtype = NoDType /\ vtype = None THEN Returned(None)
    ELSE IF vtype = None THEN Returned(TensorType(dtype))
    ELSE IF dtype # NoDType
    THEN IF check_tensor_type_arg_consistency(dtype, vtype).raised # ""
         THEN check_tensor_type_arg_consistency(dtype, vtype)
         ELSE Returned(vtype)
    ELSE Returned(vtype)

\* The vtype _interpret_numeric_value returns with the wrapped value.
interpret_numeric_value(vtype, fallback_vtype) ==
    LET v == IF vtype = None THEN fallback_vtype ELSE vtype IN
    IF IsTensorType(v)
    THEN IF ~is_float(v[2]) /\ ~is_integer(v[2]) THEN Raised("TypeError") ELSE Returned(v)
    ELSE IF v \in {<<"FloatType">>, <<"IntType">>} THEN Returned(v)
    ELSE Raised("TypeError")

cast(x, dtype, placement, stack) ==
    LET plc == materialize_placement_arg(placement, stack) IN
    IF plc.raised # "" THEN plc
    ELSE IF ~IsTensorType(x.vtype) THEN Raised("ValueError")
    ELSE IF x.vtype[2] = NoDType \/ dtype = NoDType THEN Raised("ValueError")
    ELSE IF ~IsDType(dtype) /\ NUMPY_DTYPES_MAP(dtype) = NoDType THEN Raised("ValueError")
    ELSE IF x.vtype[2] = dtype THEN Returned(x)
    ELSE Returned(CastExpression(plc.value, <<x>>, TensorType(dtype)))

\* constant(value, dtype, vtype, placement). Its two recursive calls for a
\* Python scalar with a fixed-point tensor vtype are
\* constant(np.array(value), vtype=vtype): dtype and placement are left to
\* their defaults.
RECURSIVE constant(_, _, _, _, _)
constant(value, dtype, vtype_arg, placement_arg, stack) ==
    LET placement == materialize_placement_arg(placement_arg, stack)
        lifted == maybe_lift_dtype_to_tensor_vtype(dtype, vtype_arg)
        vtype == lifted.value
    IN
    IF placement.raised # "" THEN placement
    ELSE IF lifted.raised # "" THEN lifted
    ELSE CASE value[1] = "ndarray" ->
                LET moose_dtype == NUMPY_DTYPES_MAP(value[2]) IN
                IF moose_dtype = NoDType THEN Raised("NotImplementedError")
                ELSE IF vtype # None /\ moose_dtype # vtype[2]
                THEN LET cast_dtype == IF dtype # NoDType THEN dtype ELSE vtype[2]
                         implicit_const ==
                             constant(value, moose_dtype, None, placement.value, stack)
                     IN  IF ~IsDType(cast_dtype) THEN Raised("TypeError")
                         ELSE IF implicit_const.raised # "" THEN implicit_const
                         ELSE cast(implicit_const.value, cast_dtype, placement.value, stack)
                ELSE Returned(ConstantExpression(
                         placement.value,
                         IF vtype = None THEN TensorType(moose_dtype) ELSE vtype))
           [] value[1] \in {"float", "int"} ->
                IF IsTensorType(vtype) /\ is_fixedpoint(vtype[2])
                THEN constant(np_array(value), NoDType, vtype, None, stack)
                ELSE LET numeric == interpret_numeric_value(
                                        vtype,
                                        IF value[1] = "float" THEN <<"FloatType">>
                                        ELSE <<"IntType">>)
                     IN  IF numeric.raised # "" THEN numeric
                         ELSE Returned(ConstantExpression(placement.value, numeric.value))
           [] value[1] = "str" ->
                IF vtype # None /\ vtype # <<"StringType">> THEN Raised("ValueError")
                ELSE Returned(ConstantExpression(placement.value, <<"StringType">>))
           [] OTHER -> Returned(ConstantExpression(placement.value, vtype))

\* ---- index_axis
\* Python values handed in as axis and index: ints, floats (<<"float", n>> is
\* n + 0.5), a str and None.
PyInt(n) == <<"int", n>>
PyFloat(n) == <<"float", n>>
AxisValues ==
    {PyInt(n) : n \in {-1, 0, 1}} \cup {PyFloat(n) : n \in {-1, 0}}
    \cup {<<"str">>, <<"NoneType">>}
IsInt(v) == v[1] = "int"

\* `v < 0`: a str or None does not compare with an int.
less_than_zero(v) ==
    IF v[1] \in {"int", "float"} THEN [raised |-> "", value |-> v[2] < 0]
    ELSE [raised |-> "TypeError", value |-> FALSE]

IndexAxisExpression(placement, inputs, axis, index, vtype) ==
    [class |-> "IndexAxisExpression", op_name |-> "", placement |-> placement,
     inputs |-> inputs, vtype |-> vtype, axis |-> axis, index |-> index]

\* index_axis(x, axis, index, placement): the first test is
\* `not isinstance(axis, int) or index < 0`, the second
\* `not isinstance(index, int) or index < 0`; `or` does not evaluate its
\* right side when the left holds.
index_axis(x, axis, index, placement_arg, stack) ==
    LET placement == materialize_placement_arg(placement_arg, stack) IN
    IF ~IsInt(axis) THEN Raised("ValueError")
    ELSE IF less_than_zero(index).raised # "" THEN Raised(less_than_zero(index).raised)
    ELSE IF less_than_zero(index).value THEN Raised("ValueError")
    ELSE IF ~IsInt(index) THEN Raised("ValueError")
    ELSE IF placement.raised # "" THEN placement
    ELSE Returned(IndexAxisExpression(placement.value, <<x>>, axis, index, x.vtype))

\* The expressions handed in as x: a tensor and a value that is none.
IndexedOperands == {x \in Operands : x.vtype \in {TensorType("float64"), <<"IntType">>}}

EdslInit ==
    /\ CURRENT_PLACEMENT = <<>>
    /\ call = [fn |-> "none", lhs |-> None, rhs |-> None, args |-> <<>>,
               placement |-> None, outcome |-> "none", result |-> <<>>]
    /\ blocks = <<>>

\* `with plc:` is entered: PlacementExpression.__enter__
Enter(plc) ==
    /\ Len(blocks) < MaxDepth
    /\ CURRENT_PLACEMENT' = Append(CURRENT_PLACEMENT, plc)
    /\ blocks' = Append(blocks, [placement |-> plc, before |-> CURRENT_PLACEMENT])
    /\ UNCHANGED call
    /\ UNCHANGED <<chor_vars, comp_vars, graph_vars, rep_vars>>

\* What __exit__ is handed as `type`: None when the block ends normally,
\* the class of the exception that leaves it otherwise.
ExitTypes == {None, <<"ValueError">>}

\* The innermost open block is left: PlacementExpression.__exit__(type, value,
\* traceback). It pops whatever `type` is and returns None, so an exception
\* goes on to the caller.
Exit(type) ==
    /\ blocks # <<>>
    /\ CURRENT_PLACEMENT' = SubSeq(CURRENT_PLACEMENT, 1, Len(CURRENT_PLACEMENT) - 1)
    /\ blocks' = SubSeq(blocks, 1, Len(blocks) - 1)
    /\ UNCHANGED call
    /\ UNCHANGED <<chor_vars, comp_vars, graph_vars, rep_vars>>

\* One call of a binary constructor.
BinaryOp(fn, lhs, rhs, placement) ==
    /\ LET ended == binary_call(fn, lhs, rhs, placement, CURRENT_PLACEMENT)
       IN  /\ call' = [fn |-> fn, lhs |-> lhs, rhs |-> rhs, args |-> <<>>,
                       placement |-> placement,
                       outcome |-> IF ended.raised # "" THEN ended.raised ELSE "returned",
                       result |-> IF ended.raised # "" THEN <<>> ELSE <<ended.value>>]
    /\ UNCHANGED <<CURRENT_PLACEMENT, blocks>>
    /\ UNCHANGED <<chor_vars, comp_vars, graph_vars, rep_vars>>

\* One call of constant. An ndarray is given no vtype or a tensor vtype.
Constant(value, dtype, vtype, placement) ==
    /\ value[1] = "ndarray" => (vtype = None \/ IsTensorType(vtype))
    /\ LET ended == constant(value, dtype, vtype, placement, CURRENT_PLACEMENT)
       IN  /\ call' = [fn |-> "constant", lhs |-> None, rhs |-> None,
                       args |-> <<value, dtype, vtype>>,
                       placement |-> placement,
                       outcome |-> IF ended.raised # "" THEN ended.raised ELSE "returned",
                       result |-> IF ended.raised # "" THEN <<>> ELSE <<ended.value>>]
    /\ UNCHANGED <<CURRENT_PLACEMENT, blocks>>
    /\ UNCHANGED <<chor_vars, comp_vars, graph_vars, rep_vars>>

\* One call of index_axis.
IndexAxis(x, axis, index, placement) ==
    /\ LET ended == index_axis(x, axis, index, placement, CURRENT_PLACEMENT)
       IN  /\ call' = [fn |-> "index_axis", lhs |-> x, rhs |-> None,
                       args |-> <<axis, index>>,
                       placement |-> placement,
                       outcome |-> IF ended.raised # "" THEN ended.raised ELSE "returned",
                       result |-> IF ended.raised # "" THEN <<>> ELSE <<ended.value>>]
    /\ UNCHANGED <<CURRENT_PLACEMENT, blocks>>
    /\ UNCHANGED <<chor_vars, comp_vars, graph_vars, rep_vars>>

EdslNext ==
    \/ \E plc \in PlacementExpressions : Enter(plc)
    \/ \E type \in ExitTypes : Exit(type)
    \/ \E fn \in BinaryOps : \E lhs, rhs \in Operands : \E placement \in PlacementArgs :
          BinaryOp(fn, lhs, rhs, placement)

ConstantNext ==
    \/ \E plc \in PlacementExpressions : Enter(plc)
    \/ \E type \in ExitTypes : Exit(type)
    \/ \E value \in ConstantValues : \E dtype \in ConstantDTypeArgs :
          \E vtype \in ConstantVtypeArgs : \E placement \in PlacementArgs :
              Constant(value, dtype, vtype, placement)

IndexAxisNext ==
    \/ \E plc \in PlacementExpressions : Enter(plc)
    \/ \E type \in ExitTypes : Exit(type)
    \/ \E x \in IndexedOperands : \E axis, index \in AxisValues :
          \E placement \in PlacementArgs : IndexAxis(x, axis, index, placement)

\* ---------------------------------------------------------- specifications
vars == <<chor_vars, comp_vars, graph_vars, rep_vars, edsl_vars>>
Init == ChorInit /\ CompInit /\ GraphInit /\ RepInit /\ EdslInit

\* The choreography on its event loop.
Next == ChorNext
Spec == Init /\ [][Next]_vars

\* A Compiler object and the compile calls made on it.
CompilerNext == CompNext
CompilerSpec == Init /\ [][CompilerNext]_vars

\* A Compiler with a short pass list whose passes ask for fresh names.
FreshNext ==
    \/ \E passes_arg \in CustomPasses : Construct(passes_arg)
    \/ \E c \in InputComputations : Compile(c, FALSE)
    \/ \E prefix \in Prefixes : get_fresh_name(prefix)
    \/ \E performed_changes \in BOOLEAN : RunPass(performed_changes)
    \/ Return
FreshSpec == Init /\ [][FreshNext]_vars

\* A computation taken through the replicated encoding, pruning and networking
\* passes.
PassSpec == Init /\ [][GraphNext]_vars

\* Two shared values taken through an expanded addition or multiplication.
ReplicatedSpec == Init /\ [][RepNext]_vars

\* A front end entering placements and calling expression constructors.
EdslSpec == Init /\ [][EdslNext]_vars

\* A front end entering placements and building constants.
ConstantSpec == Init /\ [][ConstantNext]_vars

\* A front end entering placements and calling index_axis.
IndexAxisSpec == Init /\ [][IndexAxisNext]_vars

\* ------------------------------------------------------------------ claims
TasksOf(ts, s) == {t \in 1..Len(ts) : ts[t].session_id = s}
TerminalStatuses == {"Completed", "Error"}
ReportsOf(s, statuses) ==
    {k \in 1..Len(reports) : reports[k].session_id = s /\ reports[k].status \in statuses}

\* C1: whatever the polls return, at most one task is ever created per
\* session id.
C1_AtMostOneTaskPerSession ==
    \A s \in SessionIds : Cardinality(TasksOf(tasks, s)) <= 1

\* A session id came back while its task existed, and it still has one task.
C1_Witness ==
    \E e \in ignored : Cardinality(TasksOf(tasks, e[1])) = 1

\* C2: a task that has ended has delivered exactly one terminal report.
C2_EndedTaskReportedOnce ==
    \A t \in 1..Len(tasks) :
        tasks[t].pc \in Ended =>
            Cardinality(ReportsOf(tasks[t].session_id, TerminalStatuses)) = 1

C4_NoExceptionLeavesTask ==
    \A t \in 1..Len(tasks) : tasks[t].pc # "raised"

\* C5: a task that has taken its first step has reported "Started", as the
\* first report of its session, before run_computation and any terminal report.
C5_StartedFirst ==
    \A t \in 1..Len(tasks) :
        tasks[t].pc # "created" =>
            \E k \in ReportsOf(tasks[t].session_id, {"Started"}) :
                \A j \in ReportsOf(tasks[t].session_id, TerminalStatuses) : k < j

\* The next step of run, whichever it is.
RunStep == Login \/ Sleep \/ \E sessions \in Responses : Dispatch(sessions)

\* C6: neither side waits for the other: while run has not ended (and has
\* cycles left to explore) its next step can be taken whatever the tasks are
\* doing, and every unfinished task can take its next step wherever run and
\* the other tasks stand.
C6_NonBlocking ==
    /\ (runpc \in {"login", "poll"} \/ (runpc = "sleep" /\ polls < MaxPolls)) => ENABLED RunStep
    /\ \A t \in 1..Len(tasks) : tasks[t].pc \notin Ended => ENABLED handle_session(t)

\* run has gone on to the sleep of its next cycle while a task it spawned in
\* an earlier cycle has not taken a step.
C6_Witness ==
    \E t \in 1..Len(tasks) :
        /\ tasks[t].pc = "created"
        /\ runpc = "sleep"
        /\ i > tasks[t].cycle

\* C7: client.login is called once, before the first get_next_sessions, and
\* not again.
C7_LoginOnce ==
    /\ logins <= 1
    /\ polls > 0 => logins = 1
    /\ runpc # "login" => logins = 1

\* Two polls have been made after the one login.
C7_Witness == polls >= 2 /\ logins = 1

\* C8: once the task of a session has ended in failure, no step creates
\* another task for that session id or runs executor.run_computation for it.
C8_NoRetry ==
    [][\A t \in 1..Len(tasks) :
          tasks[t].pc \in {"error", "raised"} =>
              /\ TasksOf(tasks', tasks[t].session_id) = TasksOf(tasks, tasks[t].session_id)
              /\ runs'[tasks[t].session_id] = runs[tasks[t].session_id]
              /\ tasks'[t] = tasks[t]]_vars

\* The control plane returned a session id again after its task had failed,
\* and the session still has that one task.
C8_Witness ==
    \E e \in ignored :
        /\ e[2] \in {"error", "raised"}
        /\ Cardinality(TasksOf(tasks, e[1])) = 1

Finished == cpc = "idle" /\ compiles > 0

\* Where a pass stands in the passes run so far; 0 when it has not run.
PlaceIn(q, compiler_pass) ==
    IF \E k \in 1..Len(q) : q[k] = compiler_pass
    THEN CHOOSE k \in 1..Len(q) : q[k] = compiler_pass
    ELSE 0

\* The order of the passes the overview lists.
ListedOrder ==
    << "HostEncodingPass", "HostLoweringPass", "HostRingLoweringPass",
       "ReplicatedEncodingPass", "ReplicatedOpsPass", "ReplicatedLoweringPass",
       "PruningPass", "NetworkingPass" >>

\* C9 as stated: with the default list a compile call runs the passes in the
\* listed order, ring lowering before the replicated encoding.
C9_ListedOrder ==
    (Finished /\ passes = DefaultPasses) => ran = ListedOrder

\* C9, amended: with the default list a compile call runs
\* MpspdzApplyFunctionPass first and then the eight listed passes, with ring
\* lowering after the replicated encoding and the replicated ops and before
\* the replicated lowering.
C9_CodeOrder ==
    (Finished /\ passes = DefaultPasses) =>
        ran = << "MpspdzApplyFunctionPass", "HostEncodingPass", "HostLoweringPass",
                 "ReplicatedEncodingPass", "ReplicatedOpsPass", "HostRingLoweringPass",
                 "ReplicatedLoweringPass", "PruningPass", "NetworkingPass" >>

\* A compile call on a default Compiler has returned.
C9_Witness == Finished /\ passes = DefaultPasses /\ Len(ran) = 9

LoweringPasses ==
    {"HostLoweringPass", "HostRingLoweringPass", "ReplicatedOpsPass", "ReplicatedLoweringPass"}

\* C10: with the default list, pruning runs once every lowering pass has run,
\* networking runs after pruning, and nothing runs after networking.
C10_PruningPlace ==
    passes = DefaultPasses =>
        /\ PlaceIn(ran, "PruningPass") > 0 =>
              \A l \in LoweringPasses :
                  0 < PlaceIn(ran, l) /\ PlaceIn(ran, l) < PlaceIn(ran, "PruningPass")
        /\ PlaceIn(ran, "NetworkingPass") > 0 =>
              /\ 0 < PlaceIn(ran, "PruningPass")
              /\ PlaceIn(ran, "PruningPass") < PlaceIn(ran, "NetworkingPass")
              /\ PlaceIn(ran, "NetworkingPass") = Len(ran)
        /\ Finished => PlaceIn(ran, "NetworkingPass") = Len(ran) /\ Len(ran) > 0

\* A default compile has returned after pruning and networking both ran.
C10_Witness ==
    /\ Finished
    /\ passes = DefaultPasses
    /\ PlaceIn(ran, "PruningPass") > 0
    /\ PlaceIn(ran, "NetworkingPass") > PlaceIn(ran, "PruningPass")

\* The earlier get_fresh_name calls with the prefix of call k.
EarlierSamePrefix(k) == {j \in 1..(k - 1) : issued[j].prefix = issued[k].prefix}

\* C11: get_fresh_name(prefix) returns prefix, "_" and the number of earlier
\* calls for that prefix (0 for the first), and the counter of every prefix
\* counts the calls made for that prefix alone.
C11_PerPrefixCounter ==
    /\ \A k \in 1..Len(issued) :
          issued[k].name =
              issued[k].prefix \o <<"_">> \o Decimal(Cardinality(EarlierSamePrefix(k)))
    /\ \A p \in Prefixes :
          name_counters[p] = Cardinality({j \in 1..Len(issued) : issued[j].prefix = p})

\* A prefix was asked for twice with another prefix asked for in between.
C11_Witness ==
    \E j, k, l \in 1..Len(issued) :
        /\ j < k /\ k < l
        /\ issued[j].prefix = issued[l].prefix
        /\ issued[k].prefix # issued[j].prefix

\* C12: no two get_fresh_name calls return the same string.
C12_NoCollision ==
    \A j, k \in 1..Len(issued) : j # k => issued[j].name # issued[k].name

\* Names were handed out for "x" twice and for "x_0", the first name of "x".
C12_Witness ==
    /\ \E j, k \in 1..Len(issued) :
          j # k /\ issued[j].prefix = <<"x">> /\ issued[k].prefix = <<"x">>
    /\ \E k \in 1..Len(issued) : issued[k].prefix = <<"x", "_", "0">>

\* The get_fresh_name calls of one compile call.
CallsOf(c) == SelectSeq(issued, LAMBDA e : e.call = c)
PrefixesOf(c) == [k \in 1..Len(CallsOf(c)) |-> CallsOf(c)[k].prefix]
NamesOf(c) == [k \in 1..Len(CallsOf(c)) |-> CallsOf(c)[k].name]

\* C13: a second compile call whose passes ask for the same prefixes as in
\* the first call is handed the same names.
C13_SameNamesEachCall ==
    PrefixesOf(1) = PrefixesOf(2) => NamesOf(1) = NamesOf(2)

\* C14: the passes of the list run once each, in order; the first is given
\* the computation compile was called with and each later one the computation
\* the pass before it returned, whatever its changed flag; compile returns
\* what the last pass returned.
C14_PassesChained ==
    /\ Len(io) = pass_i
    /\ \A k \in 1..Len(io) :
          /\ io[k].pass = passes[k]
          /\ io[k].given = IF k = 1 THEN input ELSE io[k - 1].returned
    /\ Finished =>
          /\ Len(io) = Len(passes)
          /\ result = IF io = <<>> THEN input ELSE io[Len(io)].returned

\* A compile call has returned after a pass that changed the graph was
\* followed by one that did not and by another pass.
C14_Witness ==
    /\ Finished
    /\ \E k \in 1..Len(io) :
          k + 2 <= Len(io) /\ io[k].changed /\ ~io[k + 1].changed

\* The render_computation calls made for pass k of this compile call.
RenderedFor(k) ==
    {n \in 1..Len(rendered) : rendered[n] = <<"pass", k, lower_name(passes[k])>>}

\* C15: with render set, a pass that reported a change is rendered once,
\* under render_prefix, its 1-based index and its lower-cased class name, and a
\* pass that reported none is not rendered; apart from the initial graph
\* nothing else is rendered; without render nothing is rendered.
C15_RenderChangedPasses ==
    /\ render =>
          /\ \A k \in 1..Len(io) :
                Cardinality(RenderedFor(k)) = IF io[k].changed THEN 1 ELSE 0
          /\ \A n \in 1..Len(rendered) :
                \/ n = 1 /\ rendered[n] = <<"pass", 0, "initial">>
                \/ \E k \in 1..Len(io) : n \in RenderedFor(k)
    /\ ~render => rendered = <<>>

\* A rendering compile call has returned; one pass changed the graph and one
\* did not.
C15_Witness ==
    /\ Finished
    /\ render
    /\ \E j, k \in 1..Len(io) : io[j].changed /\ ~io[k].changed

\* The operations of g of one kind carrying the rendezvous key k.
Keyed(g, kind, k) == {c \in DOMAIN g : g[c].kind = kind /\ g[c].key = k}

\* C16: in the computation the networking pass returns every input of an
\* operation is placed where the operation is; an edge that crossed
\* placements now reads a Receive at the consumer's placement, whose key is
\* carried by one Send, at the producer's placement, reading the producer.
C16_PlacementHomogeneity ==
    stage = "networked" =>
        /\ \A e \in Edges(graph) :
              graph[Producer(graph, e)].placement = graph[e[1]].placement
        /\ \A e \in Edges(given) :
              IF e \in CrossEdges(given)
              THEN LET receive == graph[Producer(graph, e)] IN
                   /\ receive.kind = "Receive"
                   /\ receive.placement = given[e[1]].placement
                   /\ Cardinality(Keyed(graph, "Receive", receive.key)) = 1
                   /\ \E s \in DOMAIN graph :
                         /\ Keyed(graph, "Send", receive.key) = {s}
                         /\ graph[s].placement = given[Producer(given, e)].placement
                         /\ graph[s].inputs = <<Producer(given, e)>>
              ELSE Producer(graph, e) = Producer(given, e)

\* The networking pass was given a computation with two edges across
\* placements.
C16_Witness ==
    /\ stage = "networked"
    /\ Cardinality(CrossEdges(given)) >= 2

\* A set of operations of g holding the Output and Save operations and the
\* inputs of its members.
ClosedFromOutputs(g, K) ==
    /\ \A c \in DOMAIN g : g[c].kind \in {"Output", "Save"} => c \in K
    /\ \A e \in Edges(g) : e[1] \in K => Producer(g, e) \in K

\* C17: the pruning pass keeps, unchanged, exactly the operations in every
\* set closed from the outputs (those a backward traversal from an Output or
\* Save reaches) and reports whether it deleted any; run on its own result it
\* deletes nothing and reports no change.
C17_PruningExact ==
    /\ stage \in {"pruned", "pruned_twice"} =>
          /\ ClosedFromOutputs(given, DOMAIN graph)
          /\ \A K \in SUBSET (DOMAIN given) :
                ClosedFromOutputs(given, K) => DOMAIN graph \subseteq K
          /\ \A c \in DOMAIN graph : graph[c] = given[c]
          /\ changed = (DOMAIN graph # DOMAIN given)
    /\ stage = "pruned_twice" => graph = given /\ ~changed

\* A computation that lost an operation to pruning and kept another has been
\* pruned again.
C17_Witness ==
    /\ stage = "pruned_twice"
    /\ \E c \in DOMAIN graph : \E d \in 1..c : d \notin DOMAIN graph

WithForeignShare(xs, p, v) == [xs EXCEPT ![NextPlayer(NextPlayer(p))] = v]

\* C19: for every replicated sharing of a and b modulo M the expanded
\* addition reveals (a + b) mod M and the expanded multiplication reveals
\* (a * b) mod M, and what each player computes is the same whatever the
\* share it does not hold is.
C19_ReplicatedArithmetic ==
    LET a == Reconstruct(modulus, shares.a)
        b == Reconstruct(modulus, shares.b)
    IN  /\ (rphase = "revealed" /\ rop = "add") => revealed = (a + b) % modulus
        /\ (rphase = "revealed" /\ rop = "mul") => revealed = (a * b) % modulus
        /\ rop = "add" =>
              \A p \in Players : \A v, w \in 0..(modulus - 1) :
                  out[p] = add_local(modulus, WithForeignShare(shares.a, p, v),
                                     WithForeignShare(shares.b, p, w), p)
        /\ rop = "mul" =>
              \A p \in Players : \A v, w \in 0..(modulus - 1) :
                  local[p] = mul_local(modulus, WithForeignShare(shares.a, p, v),
                                       WithForeignShare(shares.b, p, w), alpha, p)
        /\ rphase \in {"added", "multiplied", "revealed"} =>
              \A p \in Players : out[p][2] = out[NextPlayer(p)][1]

\* A product that wraps around the modulus was revealed from sharings none
\* of whose shares is zero, re-randomized by a sharing of zero that is not all
\* zero.
C19_Witness ==
    /\ rphase = "revealed"
    /\ rop = "mul"
    /\ Reconstruct(modulus, shares.a) * Reconstruct(modulus, shares.b) >= modulus
    /\ \A p \in Players : shares.a[p] # 0 /\ shares.b[p] # 0 /\ alpha[p] # 0

\* C20: a binary constructor called with operands of different dtypes (both
\* tensors) or of different value types raises and builds no expression; when
\* it returns, the expression carries the operands' common value type, a
\* boolean tensor for less and greater.
C20_MismatchRaises ==
    call.fn \in BinaryOps =>
        LET lhs_vtype == call.lhs.vtype
            rhs_vtype == call.rhs.vtype
            mismatch == IF IsTensorType(lhs_vtype) /\ IsTensorType(rhs_vtype)
                        THEN lhs_vtype[2] # rhs_vtype[2]
                        ELSE lhs_vtype # rhs_vtype
        IN  /\ mismatch => call.outcome # "returned" /\ call.result = <<>>
            /\ call.outcome = "returned" =>
                  call.result[1].vtype =
                      IF call.fn \in {"less", "greater"} THEN TensorType("bool_")
                      ELSE lhs_vtype

\* C22: every call of get_next_sessions, the first included, comes after a
\* sleep of its own of poll_delay (10 by default), and a cycle makes exactly
\* one poll: cycle i has made its poll once it is past its sleep, and cycles
\* 1..i-1 have made one each.
C22_SleepBeforeEveryPoll ==
    /\ Len(sleeps) = polls
    /\ \A k \in 1..Len(sleeps) : sleeps[k] = 10
    /\ runpc = "sleep" => polls = i - 1
    /\ runpc \in {"poll", "raised"} => polls = i

\* The first poll has been made and answered, and the second cycle has slept
\* and polled.
C22_Witness ==
    /\ i = 2
    /\ runpc = "poll"
    /\ polls = 2

\* The state the `for session in sessions` loop would start from now.
LoopState ==
    [session_tasks |-> session_tasks, tasks |-> tasks, ignored |-> ignored, raised |-> FALSE]

\* What one iteration of the loop would do with `session` now: pass over a
\* session whose id is a key; otherwise create a task and its entry together
\* when the computation deserializes, and neither when it does not; the same
\* whatever the session's status field says.
DispatchByKeyOnly(session) ==
    LET r == for_session(session, LoopState, i) IN
    /\ \A status \in PolledStatuses :
          for_session([session EXCEPT !.status = status], LoopState, i) = r
    /\ in_session_tasks(session.id, session_tasks) =>
          r.tasks = tasks /\ r.session_tasks = session_tasks /\ ~r.raised
    /\ (~in_session_tasks(session.id, session_tasks) /\ session.computation = "valid") =>
          /\ r.tasks = Append(tasks, [session_id |-> session.id, pc |-> "created", cycle |-> i])
          /\ r.session_tasks = [session_tasks EXCEPT ![session.id] = Len(tasks) + 1]
    /\ (~in_session_tasks(session.id, session_tasks) /\ session.computation # "valid") =>
          r.tasks = tasks /\ r.session_tasks = session_tasks /\ r.raised

\* C23: the keys of session_tasks are exactly the ids a task was created for,
\* each entry standing for that task; an entry, once there, is never removed
\* or overwritten, also when its task has ended; a polled session is
\* dispatched or not by its id being a key alone, and one whose computation
\* does not deserialize gets neither task nor entry.
C23_SessionTasksKeys ==
    /\ [](/\ {s \in SessionIds : in_session_tasks(s, session_tasks)}
               = {tasks[t].session_id : t \in 1..Len(tasks)}
          /\ \A s \in SessionIds : in_session_tasks(s, session_tasks) =>
                /\ session_tasks[s] \in 1..Len(tasks)
                /\ tasks[session_tasks[s]].session_id = s
          /\ \A session \in Sessions : DispatchByKeyOnly(session))
    /\ [][\A s \in SessionIds : in_session_tasks(s, session_tasks) =>
              session_tasks'[s] = session_tasks[s]]_vars

\* A session was polled again after its task had ended and was passed over,
\* its entry still there, while another session has no entry.
C23_Witness ==
    \E s, u \in SessionIds :
        /\ in_session_tasks(s, session_tasks)
        /\ tasks[session_tasks[s]].pc \in Ended
        /\ <<s, tasks[session_tasks[s]].pc>> \in ignored
        /\ ~in_session_tasks(u, session_tasks)

\* The expression e and the expressions it was built from are placed on plc.
PlacedOn(e, plc) ==
    /\ e.placement = plc
    /\ \A k \in 1..Len(e.inputs) : e.inputs[k].placement = plc

\* C24: a call of constant with an explicit placement p ends as it would with
\* the placement stack empty, whatever the stack held when it was made: it
\* does not fail for want of a current placement, and what it returns, the
\* inner constant of an implicit cast included, is placed on p.
C24_ConstantOnGivenPlacement ==
    (call.fn = "constant" /\ IsPlacementExpression(call.placement)) =>
        LET alone == constant(call.args[1], call.args[2], call.args[3], call.placement, <<>>)
        IN  /\ alone.raised # "IndexError"
            /\ call.outcome = (IF alone.raised # "" THEN alone.raised ELSE "returned")
            /\ call.outcome = "returned" =>
                  /\ call.result[1] = alone.value
                  /\ PlacedOn(call.result[1], call.placement)

\* C21: inside `with placement:` blocks get_current_placement returns the
\* placement of the innermost open block; leaving a block, normally or by an
\* exception, puts CURRENT_PLACEMENT back to what it was when the block was
\* entered; nothing but entering and leaving a block changes it; an
\* expression built with an explicit placement is placed on it.
C21_PlacementStack ==
    /\ [](blocks # <<>> =>
            get_current_placement(CURRENT_PLACEMENT) = Returned(blocks[Len(blocks)].placement))
    /\ [](blocks = <<>> => CURRENT_PLACEMENT = <<>>)
    /\ [][Len(blocks') < Len(blocks) =>
            CURRENT_PLACEMENT' = blocks[Len(blocks)].before]_vars
    /\ [][blocks' = blocks => CURRENT_PLACEMENT' = CURRENT_PLACEMENT]_vars
    /\ []((call.outcome = "returned" /\ IsPlacementExpression(call.placement)) =>
            call.result[1].placement = call.placement)

\* An int greater than or equal to 0.
NonNegativeInt(v) == IsInt(v) /\ v[2] >= 0

\* C25: index_axis raises ValueError and builds no expression when axis or
\* index is not an int or is negative, and returns an IndexAxisExpression only
\* when both are ints greater than or equal to 0.
C25_IndexAxisArguments ==
    call.fn = "index_axis" =>
        /\ (~NonNegativeInt(call.args[1]) \/ ~NonNegativeInt(call.args[2])) =>
              call.outcome = "ValueError" /\ call.result = <<>>
        /\ call.outcome = "returned" =>
              /\ call.result[1].class = "IndexAxisExpression"
              /\ NonNegativeInt(call.args[1])
              /\ NonNegativeInt(call.args[2])
====
